---------------------------- MODULE Spec2Model ----------------------------
(***************************************************************************)
(* Model of scripts/export_table_by_partition_keys.py: the bulk export of  *)
(* Azure Table Storage entities by partition key.                          *)
(*                                                                         *)
(*   main            the coordinating thread: configuration, key loading,  *)
(*                   token, submission of one future per key to a thread   *)
(*                   pool, the as_completed loop, write_csv, the summary   *)
(*   request_one_pk  the fetch of one partition key run by a pool worker:  *)
(*                   one action per kind of outcome of requests.get        *)
(*                                                                         *)
(* A partition key is a sequence of characters.  Futures are identified by *)
(* their position in the key list (futs maps each future to its key).      *)
(* Time is counted in whole seconds.                                       *)
(***************************************************************************)
EXTENDS Integers, Sequences, FiniteSets, TLC

\* ------------------------------------------------------------------ bounds

MaxKeys == 4        \* longest input key list (before de-duplication)
MaxWorkersOpt == 2  \* largest --max-workers of a run
MaxRetriesOpt == 2  \* largest --max-retries of a run over one key
MaxPages == 3       \* longest partition, in pages, of a run over one key
MaxFileLen == 4     \* longest input file, in characters, of a run that loads any file

\* ------------------------------------------------------- program constants

BackoffCap == 60       \* min(backoff * 2, 60)
FailedShown == 20      \* failures[:20]

\* The partition keys an input file may hold; one of them has a quote.
KeyUniverse == {<<"A">>, <<"B">>, <<"O", "'", "C">>}

\* The keys of the input files of the runs over several keys: a file holds
\* the first n of them, for some n.
KeyCycle == <<<<"A">>, <<"B">>, <<"A">>, <<"O", "'", "C">>, <<"B">>, <<"B">>>>

KeyAt(n) == KeyCycle[((n - 1) % Len(KeyCycle)) + 1]

\* --initial-backoff of a single-key run.
BackoffOpts == {1, 25, 61}

\* The HTTP statuses the service answers with (requests.get returned), and
\* the outcome of a requests.get that raised a requests.RequestException.
StatusCodes == {200, 400, 401, 403, 404, 429, 500, 501, 502, 503, 504, 599}
NetErr == 0

\* A continuation header that is missing from the response.
NoMarker == 0

\* A response without continuation headers.
NoHeaders == [npk |-> NoMarker, nrk |-> NoMarker]

\* Which continuation headers a response with more pages carries.
MarkerKinds == {"pk", "rk", "both"}

Min(a, b) == IF a < b THEN a ELSE b

Range(s) == {s[i] : i \in 1..Len(s)}


\* ------------------------------------------------------ load_partition_keys

\* The text of a file is a sequence of characters.  The words "PartitionKey"
\* and "partitionkey" count as one character each: no other character of a
\* file is a letter of them.

\* sample = f.read(2048)
SampleSize == 2048

Sample(text) == SubSeq(text, 1, Min(Len(text), SampleSize))

\* ("," in sample) or (";" in sample) or ("PartitionKey" in sample)
looks_csv(sample) ==
    \/ "," \in Range(sample)
    \/ ";" \in Range(sample)
    \/ "PartitionKey" \in Range(sample)

RECURSIVE SplitFrom(_, _, _, _)
\* The pieces of text between the separators sep, where cur is the piece
\* that is being read and out the pieces read so far.
SplitFrom(text, sep, cur, out) ==
    IF text = <<>> THEN Append(out, cur)
    ELSE IF Head(text) = sep
         THEN SplitFrom(Tail(text), sep, <<>>, Append(out, cur))
         ELSE SplitFrom(Tail(text), sep, Append(cur, Head(text)), out)

\* "for line in f", without the line ends: what follows the last line end
\* is a line if it is not empty.
FileLines(text) ==
    LET pieces == SplitFrom(text, "\n", <<>>, <<>>)
    IN  IF pieces[Len(pieces)] = <<>> THEN SubSeq(pieces, 1, Len(pieces) - 1)
        ELSE pieces

\* The row csv.reader makes of a line: its fields, none for an empty line.
ReaderRow(line) == IF line = <<>> THEN <<>> ELSE SplitFrom(line, ",", <<>>, <<>>)

Whitespace == {" ", "\n"}

RECURSIVE LStrip(_)
LStrip(str) ==
    IF str # <<>> /\ Head(str) \in Whitespace THEN LStrip(Tail(str)) ELSE str

RECURSIVE RStrip(_)
RStrip(str) ==
    IF str # <<>> /\ str[Len(str)] \in Whitespace
    THEN RStrip(SubSeq(str, 1, Len(str) - 1))
    ELSE str

\* str.strip()
Strip(str) == RStrip(LStrip(str))

\* str.lower(), character by character.
LowerChar(c) ==
    CASE c = "PartitionKey" -> "partitionkey"
      [] c = "A" -> "a"
      [] c = "B" -> "b"
      [] c = "C" -> "c"
      [] c = "O" -> "o"
      [] OTHER -> c

Lower(str) == [n \in 1..Len(str) |-> LowerChar(str[n])]

\* first_cell = rows[0][0].strip() if rows[0] else ""
first_cell(rows) == IF rows[1] # <<>> THEN Strip(rows[1][1]) ELSE <<>>

\* start = 1 if first_cell.lower() == "partitionkey" else 0
HeaderRows(rows) == IF Lower(first_cell(rows)) = <<"partitionkey">> THEN 1 ELSE 0

\* A plausible slip: comment lines are kept.
IsKeyOrComment(pk) == pk # <<>>

\* if pk and not pk.startswith("#")
IsKey(pk) == pk # <<>> /\ Head(pk) # "#"

RECURSIVE KeysOfRows(_)
\* The loop over the rows of the CSV reader.
KeysOfRows(rows) ==
    IF rows = <<>> THEN <<>>
    ELSE LET row == Head(rows)
             pk == IF row = <<>> THEN <<>> ELSE Strip(row[1])
         IN  (IF row # <<>> /\ IsKey(pk) THEN <<pk>> ELSE <<>>)
                 \o KeysOfRows(Tail(rows))

\* The branch "if looks_csv".
CsvKeys(text) ==
    LET lines == FileLines(text)
        rows == [n \in 1..Len(lines) |-> ReaderRow(lines[n])]
    IN  IF rows = <<>> THEN <<>>
        ELSE KeysOfRows(SubSeq(rows, HeaderRows(rows) + 1, Len(rows)))

RECURSIVE KeysOfLines(_)
\* The loop over the lines of the file.
KeysOfLines(lines) ==
    IF lines = <<>> THEN <<>>
    ELSE LET pk == Strip(Head(lines))
         IN  (IF IsKey(pk) THEN <<pk>> ELSE <<>>) \o KeysOfLines(Tail(lines))

\* The branch "else": one key per line.
LineKeys(text) == KeysOfLines(FileLines(text))

\* The keys of the file as read, before de-duplication.
ReadKeys(text) ==
    IF looks_csv(Sample(text)) THEN CsvKeys(text) ELSE LineKeys(text)

RECURSIVE DedupeFrom(_, _, _)
\* The loop "for k in keys: if k not in seen: seen.add(k); out.append(k)".
DedupeFrom(ks, seen, out) ==
    IF ks = <<>> THEN out
    ELSE IF Head(ks) \in seen
         THEN DedupeFrom(Tail(ks), seen, out)
         ELSE DedupeFrom(Tail(ks), seen \cup {Head(ks)}, Append(out, Head(ks)))

\* A plausible slip: the keys are returned as read.
DedupeSkipped(ks) == ks

\* de-dupe, preserve order
Dedupe(ks) == DedupeFrom(ks, {}, <<>>)

\* load_partition_keys(args.input), for a file that exists.
load_partition_keys(file) == Dedupe(ReadKeys(file.text))

\* ---------------------------------------------------------- request_one_pk

RECURSIVE ODataEscape(_)
\* pk.replace("'", "''")
ODataEscape(pk) ==
    IF pk = <<>> THEN <<>>
    ELSE (IF Head(pk) = "'" THEN <<"'", "'">> ELSE <<Head(pk)>>)
         \o ODataEscape(Tail(pk))

\* params = {"$filter": f"PartitionKey eq '{safe_pk}'"}; next_params = dict(params)
FirstParams(pk) ==
    [filter |-> ODataEscape(pk), NextPartitionKey |-> NoMarker, NextRowKey |-> NoMarker]

\* A plausible slip: 403 is not recognised as an authorization failure.
IsAuthStatusOnly401(status) == status = 401

\* resp.status_code in (401, 403)
IsAuthStatus(status) == status \in {401, 403}

\* resp.status_code in (429, 500, 502, 503, 504)
IsTransientStatus(status) == status \in {429, 500, 502, 503, 504}

\* A plausible slip: only server errors raise.
RaisesForStatusOnly5xx(status) == 500 <= status /\ status < 600

\* A plausible slip: only client errors raise.
RaisesForStatusOnly4xx(status) == 400 <= status /\ status < 500

\* resp.raise_for_status() raises requests.HTTPError, a RequestException,
\* for every 4xx and 5xx status.
RaisesForStatus(status) == 400 <= status /\ status < 600

\* A plausible slip: the test is off by one.
RetriesExhaustedOffByOne(t, max) == t > max + 1

\* tries > max_retries
RetriesExhausted(t, max) == t > max

\* A plausible slip: the backoff is not doubled.
NextBackoffConstant(b) == Min(b, BackoffCap)

\* backoff = min(backoff * 2, 60)
NextBackoff(b) == Min(b * 2, BackoffCap)

\* A plausible slip: the page replaces what was accumulated.
ExtendResultsReplacing(res, value) == value

\* results.extend(data.get("value", []) or [])
ExtendResults(res, value) == res \o value

\* A plausible slip: only the next partition key is looked at.
HasContinuationPkOnly(npk, nrk) == npk # NoMarker

\* if npk or nrk
HasContinuation(npk, nrk) == npk # NoMarker \/ nrk # NoMarker

\* A plausible slip: the row marker is sent only when there is no partition
\* marker.
ContinuationParamsEither(pk, npk, nrk) ==
    [filter |-> ODataEscape(pk), NextPartitionKey |-> npk,
     NextRowKey |-> IF npk # NoMarker THEN NoMarker ELSE nrk]

\* next_params = dict(params) plus the markers that are present
ContinuationParams(pk, npk, nrk) ==
    [filter |-> ODataEscape(pk), NextPartitionKey |-> npk, NextRowKey |-> nrk]

\* ------------------------------------------------------- the table service

RECURSIVE ODataUnescape(_)
\* The string a filter literal denotes: a doubled quote is one quote.
ODataUnescape(lit) ==
    IF lit = <<>> THEN <<>>
    ELSE IF Len(lit) >= 2 /\ lit[1] = "'" /\ lit[2] = "'"
         THEN <<"'">> \o ODataUnescape(Tail(Tail(lit)))
         ELSE <<Head(lit)>> \o ODataUnescape(Tail(lit))

\* The page a request asks for: the one its continuation marker names, the
\* first page when it carries none.
ServedPage(params) ==
    IF params.NextPartitionKey # NoMarker THEN params.NextPartitionKey
    ELSE IF params.NextRowKey # NoMarker THEN params.NextRowKey
    ELSE 1

\* Number of entities on a page (one page in three is empty).
RowsOnPage(page) == page % 3

\* The entities of the table are schemaless: the fields differ by partition
\* and by page.
Entity(pk, page, j) ==
    LET id == [PartitionKey |-> pk, RowKey |-> page * 10 + j]
    IN  IF pk = <<"A">>
        THEN IF page % 2 = 1 THEN id @@ ("X" :> j) ELSE id @@ ("Y" :> j)
        ELSE IF pk = <<"B">>
        THEN IF page % 2 = 1 THEN id @@ ("ETag" :> j) @@ ("x" :> page)
             ELSE id @@ ("Timestamp" :> page) @@ ("Y" :> j)
        ELSE IF page % 2 = 1 THEN [PartitionKey |-> pk, Timestamp |-> page, ETag |-> j]
             ELSE id @@ ("x" :> j)

\* data["value"] of the response to a request with these parameters.
PageEntities(params) ==
    LET pk == ODataUnescape(params.filter)
        page == ServedPage(params)
    IN  [j \in 1..RowsOnPage(page) |-> Entity(pk, page, j)]

\* x-ms-continuation-NextPartitionKey of a response followed by page next.
HeaderNextPartitionKey(kind, next) == IF kind \in {"pk", "both"} THEN next ELSE NoMarker

\* x-ms-continuation-NextRowKey of a response followed by page next.
HeaderNextRowKey(kind, next) == IF kind \in {"rk", "both"} THEN next ELSE NoMarker

RECURSIVE PagesUpTo(_, _)
\* What a fetch of pk accumulates over pages 1..n, in request order.
PagesUpTo(pk, n) ==
    IF n = 0 THEN <<>>
    ELSE PagesUpTo(pk, n - 1)
         \o PageEntities([filter |-> ODataEscape(pk), NextPartitionKey |-> n,
                          NextRowKey |-> NoMarker])

\* ---------------------------------------------------------------- write_csv

\* The code points of the field names of the table.
CodePoints(name) ==
    CASE name = "PartitionKey" -> <<80, 97, 114, 116, 105, 116, 105, 111, 110, 75, 101, 121>>
      [] name = "RowKey" -> <<82, 111, 119, 75, 101, 121>>
      [] name = "Timestamp" -> <<84, 105, 109, 101, 115, 116, 97, 109, 112>>
      [] name = "ETag" -> <<69, 84, 97, 103>>
      [] name = "X" -> <<88>>
      [] name = "Y" -> <<89>>
      [] name = "x" -> <<120>>

\* a < b for strings: by the code points at the first position where they
\* differ, a proper prefix first.
StrLess(a, b) ==
    LET s == CodePoints(a)
        t == CodePoints(b)
    IN  \E n \in 1..Len(t) :
            /\ \A m \in 1..(n - 1) : m <= Len(s) /\ s[m] = t[m]
            /\ n > Len(s) \/ s[n] < t[n]

RECURSIVE Sorted(_)
\* sorted(names)
Sorted(names) ==
    IF names = {} THEN <<>>
    ELSE LET least == CHOOSE a \in names : \A b \in names \ {a} : StrLess(a, b)
         IN  <<least>> \o Sorted(names \ {least})

\* preferred = ["PartitionKey", "RowKey", "Timestamp"]
Preferred == <<"PartitionKey", "RowKey", "Timestamp">>

\* colset.update(r.keys()) for r in rows
ColSet(rows) == UNION {DOMAIN rows[i] : i \in 1..Len(rows)}

\* A plausible slip: all the columns are sorted.
ColumnsAllSorted(rows) == Sorted(ColSet(rows))

\* [c for c in preferred if c in colset] + sorted(c for c in colset if c not in preferred)
Columns(rows) ==
    LET colset == ColSet(rows)
        InColset(c) == c \in colset
    IN  SelectSeq(Preferred, InColset)
            \o Sorted({c \in colset : c \notin Range(Preferred)})

\* DictWriter.writerow(r): a missing column is left empty.
CsvRow(r, columns) ==
    [i \in 1..Len(columns) |->
        IF columns[i] \in DOMAIN r THEN <<r[columns[i]]>> ELSE <<>>]

\* The file write_csv writes; columns is computed once, before the rows are
\* written.
CsvFile(rows) ==
    LET Written(columns) ==
            [header |-> columns,
             body |-> [i \in 1..Len(rows) |-> CsvRow(rows[i], columns)]]
    IN  CHOOSE file \in {Written(columns) : columns \in {Columns(rows)}} : TRUE

\* ------------------------------------------------------------------- state

VARIABLES
    table_url,        \* args.table_url: "" when neither the flag nor the variable is set
    input_file,       \* args.input: [exists, text], the file and its text
    max_workers,      \* args.max_workers
    max_retries,      \* args.max_retries
    initial_backoff,  \* args.initial_backoff
    mainPc,           \* where main is
    exit_status,      \* "none" while running, then "zero" or "nonzero"
    token_requests,   \* calls of cred.get_token
    keys,             \* the de-duplicated key list
    fstate,           \* per future: unsubmitted, queued, running, returned, raised
    queue,            \* the pool's work queue (futures, first in first out)
    num_threads,      \* worker threads of the pool
    tries,            \* per future: the retry counter of its fetch
    backoff,          \* per future: the current backoff of its fetch
    results,          \* per future: the entities accumulated by its fetch
    next_params,      \* per future: the query parameters of its next request
    error,            \* per future: the exception its fetch raised, "none" if none
    completed,        \* the futures that are done, in the order they finished
    snapshot,         \* the futures as_completed found done when it was called
    yielded,          \* futures as_completed has yielded
    all_rows,         \* the accumulated entities
    failures,         \* the failed keys
    printed,          \* the per-key lines printed by the loop
    summary,          \* the summary printed, <<>> while not printed
    csv_file,         \* the output file, <<>> while not written
    starts,           \* per future: how often a worker entered request_one_pk
    requests,         \* per future: calls of requests.get
    fail_pages,       \* per future: the page of each failed request, in order
    sleeps,           \* per future: the durations of the calls of time.sleep, in order
    ok_hdrs,          \* per future: the continuation headers of its latest
                      \* response with entities
    last_resp,        \* the latest outcome of requests.get: the future, the
                      \* status (or NetErr), the continuation headers
    service           \* the services of the run: the statuses the table service
                      \* answers with, its longest partition in pages, the
                      \* continuation headers it sends; whether the credential
                      \* gives a token

fetchVars == <<tries, backoff, results, next_params, error>>
logVars == <<starts, requests, fail_pages, sleeps, ok_hdrs, last_resp>>
argVars == <<table_url, input_file, max_workers, max_retries, initial_backoff>>
outVars == <<all_rows, failures, printed, summary, csv_file>>
loopVars == <<completed, snapshot>>
vars == <<argVars, mainPc, exit_status, token_requests, keys, fstate, queue,
          num_threads, fetchVars, loopVars, yielded, outVars, logVars, service>>

\* One future per key, once the pool exists.
Futures == DOMAIN fstate

Running == {i \in Futures : fstate[i] = "running"}

\* A plausible slip: only the calls that returned count as done.
DoneOnlyReturned(i) == fstate[i] = "returned"

\* A future is done once its call returned or raised.
Done(i) == fstate[i] \in {"returned", "raised"}

\* The command lines of a run of the exporter.
Args(urls, files, workers, retries, backoffs) ==
    [table_url : urls, input_file : files, max_workers : workers,
     max_retries : retries, initial_backoff : backoffs]

TableUrl == "https://account.table.core.windows.net/table"

MissingFile == [exists |-> FALSE, text |-> <<>>]

\* The file with this text.
TextFile(text) == [exists |-> TRUE, text |-> text]

RECURSIVE KeyLines(_)
\* The text that holds the keys ks, one per line.
KeyLines(ks) ==
    IF ks = <<>> THEN <<>> ELSE Head(ks) \o <<"\n">> \o KeyLines(Tail(ks))

\* The file that holds the keys ks, one per line.
File(ks) == TextFile(KeyLines(ks))

\* Runs that stop before any work: no table URL, no input file, no key.
BadArgs ==
    Args({""}, {File(<<<<"A">>>>)}, {1}, {0}, {1})
        \cup Args({TableUrl}, {MissingFile, File(<<>>)}, {1}, {0}, {1})

\* The input file that holds the first n keys of the cycle.
CycleFile(n) == File([j \in 1..n |-> KeyAt(j)])

\* Runs over one or two keys: without retries, and over two keys with one.
DispatchArgs ==
    Args({TableUrl}, {CycleFile(n) : n \in 1..2}, 1..MaxWorkersOpt, {0}, {1})
        \cup Args({TableUrl}, {File(<<KeyAt(2), KeyAt(1)>>)}, 1..MaxWorkersOpt, {1}, {1})

\* Runs over longer inputs, without retries.
LongArgs ==
    Args({TableUrl}, {CycleFile(n) : n \in 3..MaxKeys}, 1..MaxWorkersOpt, {0}, {1})

\* The service of the runs over one or two keys: one status of each class,
\* partitions of at most two pages.
DispatchService ==
    [statuses |-> {200, 403, 404, 503}, page_limit |-> 2, kinds |-> {"both"},
     tokens |-> BOOLEAN]

\* The service of the runs over longer inputs: partitions of one page.
SinglePageService ==
    [statuses |-> {200, 403, 404, 503}, page_limit |-> 1, kinds |-> {"both"},
     tokens |-> BOOLEAN]

\* The service of the runs over one key.
FetchService ==
    [statuses |-> StatusCodes, page_limit |-> MaxPages, kinds |-> MarkerKinds,
     tokens |-> BOOLEAN]

\* Runs over one key, with every retry budget and backoff.
FetchArgs ==
    Args({TableUrl}, {File(<<k>>) : k \in KeyUniverse}, {1},
         0..MaxRetriesOpt, BackoffOpts)

InitWith(args, svc) ==
    /\ service = svc
    /\ table_url = args.table_url
    /\ input_file = args.input_file
    /\ max_workers = args.max_workers
    /\ max_retries = args.max_retries
    /\ initial_backoff = args.initial_backoff
    /\ mainPc = "start"
    /\ exit_status = "none"
    /\ token_requests = 0
    /\ keys = <<>>
    /\ fstate = <<>>
    /\ queue = <<>>
    /\ num_threads = 0
    /\ tries = <<>>
    /\ backoff = <<>>
    /\ results = <<>>
    /\ next_params = <<>>
    /\ error = <<>>
    /\ completed = <<>>
    /\ snapshot = {}
    /\ yielded = {}
    /\ all_rows = <<>>
    /\ failures = <<>>
    /\ printed = {}
    /\ summary = <<>>
    /\ csv_file = <<>>
    /\ starts = <<>>
    /\ requests = <<>>
    /\ fail_pages = <<>>
    /\ sleeps = <<>>
    /\ ok_hdrs = <<>>
    /\ last_resp = [fut |-> 0, outcome |-> NetErr, npk |-> NoMarker, nrk |-> NoMarker]

Init ==
    \/ \E args \in DispatchArgs \cup BadArgs : InitWith(args, DispatchService)
    \/ \E args \in LongArgs : InitWith(args, SinglePageService)

FetchInit == \E args \in FetchArgs \cup BadArgs : InitWith(args, FetchService)

\* The characters of the input files of the runs that load any file.
FileAlphabet == {"A", "#", ",", ";", " ", "\n", "PartitionKey", "partitionkey"}

\* Every text of at most MaxFileLen characters.
Texts == UNION {[1..n -> FileAlphabet] : n \in 0..MaxFileLen}

\* A file with a header, a repeated key and a comment.
ExampleText ==
    <<"PartitionKey", "\n", "A", "\n", "A", "\n", "B", "\n", "#", "c", "\n">>

\* Runs in which no credential gives a token.
NoCredential ==
    [statuses |-> {200}, page_limit |-> 1, kinds |-> {"both"}, tokens |-> {FALSE}]

\* Runs that load any input file and get no token, and the runs over one
\* key of one page.
LoadInit ==
    \/ \E args \in Args({TableUrl}, {TextFile(t) : t \in Texts \cup {ExampleText}},
                         {1}, {0}, {1}) :
          InitWith(args, NoCredential)
    \/ \E args \in Args({TableUrl}, {File(<<k>>) : k \in KeyUniverse}, {1}, {1}, {1})
                         \cup BadArgs :
          InitWith(args, SinglePageService)

\* -------------------------------------------------------------------- main

\* raise SystemExit(...), or an exception nothing catches.
Exit ==
    /\ mainPc' = "exit"
    /\ exit_status' = "nonzero"

\* A plausible slip: the test "if not keys" is missing.
ConfigErrorKeysUnchecked(url, file) ==
    IF url = "" THEN "Missing table url"
    ELSE IF ~file.exists THEN "Input file not found"
    ELSE "none"

\* The SystemExit that main raises before it asks for a token, "none" if
\* none: in require(args.table_url, ...), in load_partition_keys, after
\* "if not keys".
ConfigError(url, file) ==
    IF url = "" THEN "Missing table url"
    ELSE IF ~file.exists THEN "Input file not found"
    ELSE IF load_partition_keys(file) = <<>> THEN "No PartitionKey values found"
    ELSE "none"

\* main up to the key list: require(table_url), load_partition_keys, "if not keys".
MainConfig ==
    /\ mainPc = "start"
    /\ IF ConfigError(table_url, input_file) # "none"
       THEN /\ Exit
            /\ keys' = IF table_url # "" /\ input_file.exists
                       THEN load_partition_keys(input_file)
                       ELSE keys
       ELSE /\ keys' = load_partition_keys(input_file)
            /\ mainPc' = "token"
            /\ UNCHANGED exit_status
    /\ UNCHANGED <<argVars, token_requests, fstate, queue, num_threads, fetchVars,
                   loopVars, yielded, outVars, logVars, service>>

\* get_credential, cred.get_token, auth_headers, the first print, the empty
\* lists and the pool.
MainToken ==
    /\ mainPc = "token"
    /\ token_requests' = token_requests + 1
    /\ \E token_ok \in service.tokens :
        IF token_ok
        THEN /\ mainPc' = "submit"
             /\ fstate' = [i \in 1..Len(keys) |-> "unsubmitted"]
             /\ tries' = [i \in 1..Len(keys) |-> 0]
             /\ backoff' = [i \in 1..Len(keys) |-> 0]
             /\ results' = [i \in 1..Len(keys) |-> <<>>]
             /\ next_params' = [i \in 1..Len(keys) |-> FirstParams(keys[i])]
             /\ error' = [i \in 1..Len(keys) |-> "none"]
             /\ starts' = [i \in 1..Len(keys) |-> 0]
             /\ requests' = [i \in 1..Len(keys) |-> 0]
             /\ fail_pages' = [i \in 1..Len(keys) |-> <<>>]
             /\ sleeps' = [i \in 1..Len(keys) |-> <<>>]
             /\ ok_hdrs' = [i \in 1..Len(keys) |-> NoHeaders]
             /\ UNCHANGED <<exit_status, last_resp>>
        ELSE /\ Exit
             /\ UNCHANGED <<fstate, fetchVars, logVars>>
    /\ UNCHANGED <<argVars, keys, queue, num_threads, loopVars, yielded, outVars,
                   service>>

\* A plausible slip: a thread per submitted call.
PoolThreadsUnbounded(n, max) == n + 1

\* ThreadPoolExecutor(max_workers): submit starts a thread while there are
\* fewer than max_workers.
PoolThreads(n, max) == IF n < max THEN n + 1 ELSE n

\* ex.submit(request_one_pk, pk, ...) for the next pk of keys.
Submit(i) ==
    /\ mainPc = "submit"
    /\ fstate[i] = "unsubmitted"
    /\ \A j \in 1..(i - 1) : fstate[j] # "unsubmitted"
    /\ fstate' = [fstate EXCEPT ![i] = "queued"]
    /\ queue' = Append(queue, i)
    /\ num_threads' = PoolThreads(num_threads, max_workers)
    /\ mainPc' = IF i = Len(keys) THEN "as_completed" ELSE "submit"
    /\ UNCHANGED <<argVars, exit_status, token_requests, keys, fetchVars, loopVars,
                   yielded, outVars, logVars, service>>

\* A plausible slip: the retry counter and the backoff are shared by the
\* fetches, so that a fetch goes on where the one before it stood.
LocalsCarriedOver(i) ==
    [tries |-> IF i > 1 THEN tries[i - 1] ELSE 0,
     backoff |-> IF i > 1 /\ tries[i - 1] > 0 THEN backoff[i - 1] ELSE initial_backoff,
     results |-> <<>>,
     next_params |-> FirstParams(keys[i])]

\* The local variables of request_one_pk when its loop is entered for
\* future i: results = [], next_params = dict(params), backoff =
\* initial_backoff, tries = 0.
Locals(i) ==
    [tries |-> 0,
     backoff |-> initial_backoff,
     results |-> <<>>,
     next_params |-> FirstParams(keys[i])]

\* An idle worker thread takes the next call off the queue and enters
\* request_one_pk, up to its loop.
WorkerStart(i) ==
    /\ queue # <<>>
    /\ i = Head(queue)
    /\ Cardinality(Running) < num_threads
    /\ queue' = Tail(queue)
    /\ fstate' = [fstate EXCEPT ![i] = "running"]
    /\ tries' = [tries EXCEPT ![i] = Locals(i).tries]
    /\ backoff' = [backoff EXCEPT ![i] = Locals(i).backoff]
    /\ results' = [results EXCEPT ![i] = Locals(i).results]
    /\ next_params' = [next_params EXCEPT ![i] = Locals(i).next_params]
    /\ starts' = [starts EXCEPT ![i] = @ + 1]
    /\ UNCHANGED <<argVars, mainPc, exit_status, token_requests, keys, num_threads,
                   error, loopVars, yielded, outVars, requests, fail_pages, sleeps,
                   ok_hdrs, last_resp, service>>

\* ---------------------------------------------------------- request_one_pk

\* requests.get was called by the fetch of future i and ended with outcome,
\* a response carrying the continuation headers npk and nrk.
RequestedPage(i, outcome, npk, nrk) ==
    /\ fstate[i] = "running"
    /\ requests' = [requests EXCEPT ![i] = @ + 1]
    /\ last_resp' = [fut |-> i, outcome |-> outcome, npk |-> npk, nrk |-> nrk]
    /\ UNCHANGED <<argVars, mainPc, exit_status, token_requests, keys, queue,
                   num_threads, snapshot, yielded, outVars, starts, service>>

\* requests.get was called by the fetch of future i and ended with outcome, a
\* failure.
Requested(i, outcome) ==
    /\ RequestedPage(i, outcome, NoMarker, NoMarker)
    /\ UNCHANGED ok_hdrs

\* The request failed: it is logged with the page it asked for.
FailedRequest(i) ==
    fail_pages' = [fail_pages EXCEPT ![i] = Append(@, ServedPage(next_params[i]))]

\* The call ends with an exception: the future raises it.
Raise(i, exc, t) ==
    /\ fstate' = [fstate EXCEPT ![i] = "raised"]
    /\ error' = [error EXCEPT ![i] = exc]
    /\ tries' = [tries EXCEPT ![i] = t]
    /\ completed' = Append(completed, i)
    /\ UNCHANGED <<backoff, results, next_params, sleeps>>

\* A plausible slip: a failure that is retried is not counted.
SleepAndRetryUncounted(i, t) ==
    /\ sleeps' = [sleeps EXCEPT ![i] = Append(@, backoff[i])]
    /\ backoff' = [backoff EXCEPT ![i] = NextBackoff(@)]
    /\ UNCHANGED <<tries, fstate, error, results, next_params, completed>>

\* time.sleep(backoff); backoff = min(backoff * 2, 60); the loop goes on with
\* the same next_params.
SleepAndRetry(i, t) ==
    /\ tries' = [tries EXCEPT ![i] = t]
    /\ sleeps' = [sleeps EXCEPT ![i] = Append(@, backoff[i])]
    /\ backoff' = [backoff EXCEPT ![i] = NextBackoff(@)]
    /\ UNCHANGED <<fstate, error, results, next_params, completed>>

\* except requests.RequestException, entered with the retry counter at t.
ExceptRequestException(i, t) ==
    IF RetriesExhausted(t + 1, max_retries)
    THEN Raise(i, "RuntimeError: Request failed", t + 1)
    ELSE SleepAndRetry(i, t + 1)

\* requests.get raises a RequestException: connection reset, timeout, DNS.
NetworkFailure(i) ==
    /\ Requested(i, NetErr)
    /\ FailedRequest(i)
    /\ ExceptRequestException(i, tries[i])

\* The response is a 401 or a 403: RuntimeError, which no handler of the
\* fetch catches.
AuthResponse(i, status) ==
    /\ IsAuthStatus(status)
    /\ Requested(i, status)
    /\ FailedRequest(i)
    /\ Raise(i, "RuntimeError: authorization", tries[i])

\* The response is a 429, 500, 502, 503 or 504.  Out of retries,
\* raise_for_status raises an HTTPError inside the try block, which the
\* handler of RequestException catches.
TransientResponse(i, status) ==
    /\ ~IsAuthStatus(status)
    /\ IsTransientStatus(status)
    /\ Requested(i, status)
    /\ FailedRequest(i)
    /\ IF RetriesExhausted(tries[i] + 1, max_retries) /\ RaisesForStatus(status)
       THEN ExceptRequestException(i, tries[i] + 1)
       ELSE SleepAndRetry(i, tries[i] + 1)

\* Any other status for which raise_for_status raises: the HTTPError is
\* caught by the handler of RequestException.
ErrorResponse(i, status) ==
    /\ ~IsAuthStatus(status)
    /\ ~IsTransientStatus(status)
    /\ RaisesForStatus(status)
    /\ Requested(i, status)
    /\ FailedRequest(i)
    /\ ExceptRequestException(i, tries[i])

\* Any other response: its entities are accumulated, and its continuation
\* headers decide between the next page and the return.  The service sends
\* continuation headers (kind) or none (more = FALSE).
PageResponse(i, status, more, kind) ==
    /\ ~IsAuthStatus(status)
    /\ ~IsTransientStatus(status)
    /\ ~RaisesForStatus(status)
    /\ more => ServedPage(next_params[i]) < service.page_limit
    /\ LET next == ServedPage(next_params[i]) + 1
           npk == IF more THEN HeaderNextPartitionKey(kind, next) ELSE NoMarker
           nrk == IF more THEN HeaderNextRowKey(kind, next) ELSE NoMarker
       IN  /\ RequestedPage(i, status, npk, nrk)
           /\ ok_hdrs' = [ok_hdrs EXCEPT ![i] = [npk |-> npk, nrk |-> nrk]]
           /\ results' = [results EXCEPT
                             ![i] = ExtendResults(@, PageEntities(next_params[i]))]
           /\ IF HasContinuation(npk, nrk)
              THEN /\ next_params' = [next_params EXCEPT
                                         ![i] = ContinuationParams(keys[i], npk, nrk)]
                   /\ UNCHANGED <<fstate, completed>>
              ELSE /\ fstate' = [fstate EXCEPT ![i] = "returned"]
                   /\ completed' = Append(completed, i)
                   /\ UNCHANGED next_params
    /\ UNCHANGED <<tries, backoff, error, fail_pages, sleeps>>

\* -------------------------------------------------------------------- main

\* A plausible slip: the exception of a future is swallowed.
FutureRaisedNever(st) == FALSE

\* fut.result() raises what the call raised.
FutureRaised(st) == st = "raised"

\* as_completed(futs) is entered: the futures that are done by now will be
\* yielded first.
AsCompleted ==
    /\ mainPc = "as_completed"
    /\ snapshot' = {i \in Futures : Done(i)}
    /\ mainPc' = "collect"
    /\ UNCHANGED <<argVars, exit_status, token_requests, keys, fstate, queue,
                   num_threads, fetchVars, completed, yielded, outVars, logVars,
                   service>>

\* The first future of the sequence s that is not in the set done, 0 if none.
RECURSIVE FirstNotIn(_, _)
FirstNotIn(s, done) ==
    IF s = <<>> THEN 0
    ELSE IF Head(s) \notin done THEN Head(s)
    ELSE FirstNotIn(Tail(s), done)

\* as_completed yields future i next: one of those that were done when it
\* was called, in no order (it keeps them in a set), and once these are
\* through, the others in the order in which they finish.
YieldsNext(i) ==
    IF snapshot \ yielded # {}
    THEN i \in snapshot \ yielded
    ELSE i = FirstNotIn(completed, yielded)

\* A plausible slip: the entities of a key are put in front.
MergeRowsInFront(all, res) == res \o all

\* all_rows.extend(res)
MergeRows(all, res) == all \o res

\* The line the loop prints for future i.
KeyLine(i) ==
    IF FutureRaised(fstate[i])
    THEN [tag |-> "ERR", pk |-> keys[i], rows |-> 0, error |-> error[i]]
    ELSE [tag |-> "OK", pk |-> keys[i], rows |-> Len(results[i]), error |-> "none"]

\* The body of "for fut in as_completed(futs)", for the future that is
\* yielded next.
Collect(i) ==
    /\ mainPc = "collect"
    /\ i \notin yielded
    /\ Done(i)
    /\ YieldsNext(i)
    /\ yielded' = yielded \cup {i}
    /\ IF FutureRaised(fstate[i])
       THEN /\ failures' = Append(failures, keys[i])
            /\ UNCHANGED all_rows
       ELSE /\ all_rows' = MergeRows(all_rows, results[i])
            /\ UNCHANGED failures
    /\ printed' = printed \cup {KeyLine(i)}
    /\ UNCHANGED <<argVars, mainPc, exit_status, token_requests, keys, fstate, queue,
                   num_threads, fetchVars, loopVars, summary, csv_file, logVars,
                   service>>

\* A plausible slip: the loop is left at the first completion.
LoopFinishedEarly(ys, n) == ys # {}

\* as_completed is exhausted once it has yielded every future.
LoopFinished(ys, n) == ys = 1..n

\* The loop and the with block are left; write_csv(all_rows, args.output).
WriteCsv ==
    /\ mainPc = "collect"
    /\ LoopFinished(yielded, Len(keys))
    /\ csv_file' = <<CsvFile(all_rows)>>
    /\ mainPc' = "summary"
    /\ UNCHANGED <<argVars, exit_status, token_requests, keys, fstate, queue,
                   num_threads, fetchVars, loopVars, yielded, all_rows, failures,
                   printed, summary, logVars, service>>

\* A plausible slip: a run with failed keys exits with a non-zero status.
ExitStatusByFailures(fails) == IF fails = <<>> THEN "zero" ELSE "nonzero"

\* main returns after the summary, whatever the failures: the status is zero.
ExitStatus(fails) == "zero"

\* The summary is printed and main returns.
Summary ==
    /\ mainPc = "summary"
    /\ summary' = <<[processed |-> Len(keys), rows |-> Len(all_rows),
                      failures |-> Len(failures),
                      failed |-> SubSeq(failures, 1, Min(Len(failures), FailedShown))]>>
    /\ mainPc' = "done"
    /\ exit_status' = ExitStatus(failures)
    /\ UNCHANGED <<argVars, token_requests, keys, fstate, queue, num_threads,
                   fetchVars, loopVars, yielded, all_rows, failures, printed,
                   csv_file, logVars, service>>

Next ==
    \/ MainConfig
    \/ MainToken
    \/ \E i \in Futures : Submit(i)
    \/ \E i \in Futures : WorkerStart(i)
    \/ \E i \in Futures : NetworkFailure(i)
    \/ \E i \in Futures, status \in service.statuses : AuthResponse(i, status)
    \/ \E i \in Futures, status \in service.statuses : TransientResponse(i, status)
    \/ \E i \in Futures, status \in service.statuses : ErrorResponse(i, status)
    \/ \E i \in Futures, status \in service.statuses, more \in BOOLEAN,
          kind \in service.kinds : PageResponse(i, status, more, kind)
    \/ AsCompleted
    \/ \E i \in Futures : Collect(i)
    \/ WriteCsv
    \/ Summary

\* A run over several keys.
Spec == Init /\ [][Next]_vars

\* A run over one key.
FetchSpec == FetchInit /\ [][Next]_vars

\* A run that loads any input file.
LoadSpec == LoadInit /\ [][Next]_vars

\* A step of the coordinating thread.
MainStep ==
    \/ MainConfig
    \/ MainToken
    \/ \E i \in Futures : Submit(i)
    \/ AsCompleted
    \/ \E i \in Futures : Collect(i)
    \/ WriteCsv
    \/ Summary

\* A step of the worker thread that runs the call of future i.  requests.get
\* returns or raises within its timeout, and time.sleep returns.
WorkerStep(i) ==
    /\ i \in Futures
    /\ \/ WorkerStart(i)
       \/ NetworkFailure(i)
       \/ \E status \in service.statuses : AuthResponse(i, status)
       \/ \E status \in service.statuses : TransientResponse(i, status)
       \/ \E status \in service.statuses : ErrorResponse(i, status)
       \/ \E status \in service.statuses, more \in BOOLEAN, kind \in service.kinds :
             PageResponse(i, status, more, kind)

\* The runs over the shortest and the longest input without retries, against
\* partitions of one page, and the runs over two keys with one retry, against
\* partitions of two pages.
LiveInit ==
    \/ \E args \in Args({TableUrl}, {CycleFile(n) : n \in {1, MaxKeys}},
                         1..MaxWorkersOpt, {0}, {1}) \cup BadArgs :
          InitWith(args, SinglePageService)
    \/ \E args \in Args({TableUrl}, {File(<<KeyAt(2), KeyAt(1)>>)},
                         1..MaxWorkersOpt, {1}, {1}) :
          InitWith(args, DispatchService)

\* Runs over several keys in which every thread that can take a step does.
FairSpec ==
    /\ LiveInit /\ [][Next]_vars
    /\ WF_vars(MainStep)
    /\ \A i \in 1..Cardinality(KeyUniverse) : WF_vars(WorkerStep(i))

\* ------------------------------------------------------------------ claims

AuthError == "RuntimeError: authorization"
RequestError == "RuntimeError: Request failed"

\* Future i is the one that made the latest request.
Latest(i) == last_resp.fut = i

RECURSIVE Pow2(_)
Pow2(n) == IF n = 0 THEN 1 ELSE 2 * Pow2(n - 1)

\* C1: a 401 or 403 response fails the key at once, wherever in the fetch it
\* comes: the step that receives it raises without a sleep, and a fetch that
\* raised makes no request and no sleep any more.
C1_AuthFailsAtOnce ==
    /\ [](\A i \in Futures :
            Latest(i) /\ last_resp.outcome \in {401, 403}
                => fstate[i] = "raised" /\ error[i] = AuthError)
    /\ [][\A i \in Futures :
            /\ (requests'[i] # requests[i] /\ last_resp'.outcome \in {401, 403})
                  => fstate'[i] = "raised" /\ sleeps'[i] = sleeps[i]
            /\ fstate[i] = "raised"
                  => /\ fstate'[i] = "raised"
                     /\ requests'[i] = requests[i]
                     /\ sleeps'[i] = sleeps[i]]_vars

\* C1: a 403 on a later page, after a retry, with retries left.
C1_Witness ==
    \E i \in Futures :
        /\ Latest(i) /\ last_resp.outcome = 403
        /\ error[i] = AuthError
        /\ ServedPage(next_params[i]) >= 2
        /\ Len(sleeps[i]) >= 1
        /\ tries[i] < max_retries

\* The statuses 429 and 5xx.
ThrottledOr5xx == {429} \cup 500..599

\* C2: every 429 or 5xx response increments the retry counter; the fetch
\* fails when the counter then exceeds max_retries, and else sleeps and goes
\* on with the same request.  A fetch that runs out of retries has made
\* max_retries sleeps and max_retries + 1 failed requests.
C2_TransientRetried ==
    /\ [](\A i \in Futures :
            /\ error[i] = RequestError
                  => Len(fail_pages[i]) = max_retries + 1 /\ Len(sleeps[i]) = max_retries
            /\ fstate[i] \in {"running", "returned"} => Len(fail_pages[i]) <= max_retries)
    /\ [][\A i \in Futures :
            (requests'[i] # requests[i] /\ last_resp'.outcome \in ThrottledOr5xx)
                => /\ tries'[i] > tries[i]
                   /\ results'[i] = results[i]
                   /\ IF tries[i] + 1 > max_retries
                      THEN /\ fstate'[i] = "raised"
                           /\ error'[i] = RequestError
                           /\ sleeps'[i] = sleeps[i]
                      ELSE /\ fstate'[i] = "running"
                           /\ tries'[i] = tries[i] + 1
                           /\ Len(sleeps'[i]) = Len(sleeps[i]) + 1
                           /\ next_params'[i] = next_params[i]]_vars

\* C2: with max_retries = 2, the third transient failure, a 501, ends the
\* fetch after two sleeps.
C2_Witness ==
    \E i \in Futures :
        /\ max_retries = 2
        /\ Latest(i) /\ last_resp.outcome = 501
        /\ error[i] = RequestError
        /\ Len(fail_pages[i]) = 3
        /\ Len(sleeps[i]) = 2

\* C3: the n-th sleep of a fetch lasts initial_backoff * 2^(n-1), capped at 60.
C3_SleepsCapped ==
    \A i \in Futures :
        \A n \in 1..Len(sleeps[i]) :
            sleeps[i][n] = Min(initial_backoff * Pow2(n - 1), BackoffCap)

\* The backoff of a fetch after n failures.
BackoffAfter(n) ==
    IF n = 0 THEN initial_backoff ELSE Min(initial_backoff * Pow2(n), BackoffCap)

\* C4: the retry counter counts the failures of all pages of the fetch, of
\* whatever kind, and a successful page resets neither it nor the backoff:
\* a running fetch has had at most max_retries failures, and a fetch with
\* more has failed.
C4_CounterShared ==
    \A i \in Futures :
        /\ fstate[i] \in {"running", "returned"}
              => /\ tries[i] = Len(fail_pages[i])
                 /\ tries[i] <= max_retries
                 /\ Len(sleeps[i]) = tries[i]
                 /\ starts[i] = 1 => backoff[i] = BackoffAfter(tries[i])
        /\ Len(fail_pages[i]) > max_retries => fstate[i] = "raised"

\* C4: a key fails with max_retries = 2 after one failure on each of three
\* pages, the last of them a network failure.
C4_Witness ==
    \E i \in Futures :
        /\ max_retries = 2
        /\ error[i] = RequestError
        /\ fail_pages[i] = <<1, 2, 3>>
        /\ Latest(i) /\ last_resp.outcome = NetErr
        /\ sleeps[i] = <<initial_backoff, BackoffAfter(1)>>

\* C5: a fetch without failures that returns has made one request per page,
\* up to the first page without continuation headers, and returns the
\* entities of these pages in request order.
C5_PagesConcatenated ==
    \A i \in Futures :
        fstate[i] = "returned" /\ fail_pages[i] = <<>>
            => /\ Latest(i) => last_resp.npk = NoMarker /\ last_resp.nrk = NoMarker
               /\ requests[i] = ServedPage(next_params[i])
               /\ results[i] = PagesUpTo(keys[i], requests[i])

\* C5: three pages, three requests.
C5_Witness ==
    \E i \in Futures :
        /\ fstate[i] = "returned"
        /\ fail_pages[i] = <<>>
        /\ requests[i] = 3
        /\ Len(results[i]) = Len(PagesUpTo(keys[i], 3))
        /\ Len(results[i]) > 0


\* C6: at most max_workers fetches are in flight.
C6_InFlightBounded == Cardinality(Running) <= max_workers

\* C6: the pool is full and a call waits in the queue.
C6_Witness ==
    /\ max_workers = 2
    /\ Cardinality(Running) = 2
    /\ queue # <<>>

\* The entities of key k among rows.
RowsOf(k, rows) ==
    LET OfKey(r) == r["PartitionKey"] = k
    IN  SelectSeq(rows, OfKey)

\* Every key of the input was fetched once and is resolved, the CSV file is
\* written and the summary printed.
Completed ==
    /\ mainPc = "done"
    /\ csv_file # <<>>
    /\ summary # <<>>
    /\ Range(keys) = Range(ReadKeys(input_file.text))
    /\ \A i \in Futures :
          /\ starts[i] = 1
          /\ i \in yielded
          /\ \/ fstate[i] = "returned" /\ keys[i] \notin Range(failures)
             \/ fstate[i] = "raised" /\ keys[i] \in Range(failures)

\* C7: once the keys are loaded and the token is there, the run resolves
\* every key, whichever keys fail, then writes the CSV file and prints the
\* summary.
C7_NoFailFast == (mainPc = "submit") ~> Completed

\* C7: a run of three keys ends after the first two failed and the third
\* was fetched.
C7_Witness ==
    /\ Completed
    /\ Len(keys) = 3
    /\ fstate[1] = "raised"
    /\ fstate[2] = "raised"
    /\ fstate[3] = "returned"
    /\ failures = <<keys[2], keys[1]>>

\* C8: a key that was collected has one outcome: all the entities of all its
\* pages are among the accumulated rows and it is no failure, or it is a
\* failure and none of its entities is among the rows.  A key not collected
\* yet has neither.
C8_OneOutcome ==
    \A i \in Futures :
        LET mine == RowsOf(keys[i], all_rows)
            failed == keys[i] \in Range(failures)
        IN  IF i \notin yielded THEN mine = <<>> /\ ~failed
            ELSE IF fstate[i] = "raised" THEN mine = <<>> /\ failed
            ELSE /\ ~failed
                 /\ mine = results[i]
                 /\ mine = PagesUpTo(keys[i], ServedPage(next_params[i]))

\* C8: a key failed on its second page, after the first page gave entities,
\* and another key succeeded.
C8_Witness ==
    \E i \in Futures :
        /\ i \in yielded
        /\ fstate[i] = "raised"
        /\ ServedPage(next_params[i]) = 2
        /\ results[i] # <<>>
        /\ all_rows # <<>>

RECURSIVE Sum(_, _)
\* The sum of f over the set S.
Sum(f, S) ==
    IF S = {} THEN 0
    ELSE LET x == CHOOSE y \in S : TRUE
         IN  f[x] + Sum(f, S \ {x})

\* How often the fetch of key k was started.
StartsOf(k) == Sum(starts, {i \in Futures : keys[i] = k})

\* C9: no key is fetched more than once, and at the end of the run every key
\* of the input was fetched exactly once.
C9_FetchedOnce ==
    /\ \A k \in KeyUniverse : StartsOf(k) <= 1
    /\ mainPc = "done" =>
          \A k \in KeyUniverse : StartsOf(k) = (IF k \in Range(ReadKeys(input_file.text)) THEN 1 ELSE 0)

\* C9: the run of an input with a repeated key ends with a failed key.
C9_Witness ==
    /\ mainPc = "done"
    /\ Len(ReadKeys(input_file.text)) > Len(keys)
    /\ failures # <<>>

\* C10: when write_csv has been entered, every future is done and collected.
C10_CsvAfterAllSettled ==
    (mainPc \in {"summary", "done"} \/ csv_file # <<>>)
        => /\ queue = <<>>
           /\ \A i \in Futures : fstate[i] \in {"returned", "raised"} /\ i \in yielded

\* C10: the file is written after a run of three keys.
C10_Witness ==
    /\ mainPc = "summary"
    /\ Len(keys) = 3
    /\ csv_file = <<CsvFile(all_rows)>>
    /\ all_rows # <<>>
    /\ failures # <<>>

RECURSIVE ConcatResults(_)
\* The results of the futures of the sequence order that returned, one
\* after the other.
ConcatResults(order) ==
    IF order = <<>> THEN <<>>
    ELSE (IF fstate[Head(order)] = "returned" THEN results[Head(order)] ELSE <<>>)
             \o ConcatResults(Tail(order))

\* The keys of the futures of the sequence order that raised.
RaisedKeys(order) ==
    LET raised(i) == fstate[i] = "raised"
        failed == SelectSeq(order, raised)
    IN  [n \in 1..Len(failed) |-> keys[failed[n]]]

\* The futures that were collected, in the order in which they finished.
CollectedInCompletionOrder ==
    LET collected(i) == i \in yielded
    IN  SelectSeq(completed, collected)

\* The position of future i in the sequence order.
Place(order, i) == CHOOSE n \in 1..Len(order) : order[n] = i

\* The orders in which as_completed may have yielded the futures it has
\* yielded: each once, those that were done when it was called first, the
\* others after them in the order in which they finished.
YieldOrders ==
    {order \in [1..Cardinality(yielded) -> yielded] :
        /\ \A a, b \in 1..Cardinality(yielded) : a # b => order[a] # order[b]
        /\ \A a, b \in 1..Cardinality(yielded) :
              a < b => /\ order[b] \in snapshot => order[a] \in snapshot
                       /\ (order[a] \notin snapshot /\ order[b] \notin snapshot)
                             => Place(completed, order[a]) < Place(completed, order[b])}

\* C11 as stated: the accumulated rows are the results of the successful
\* fetches collected so far, in the order in which the fetches finished.
C11_RowsInCompletionOrder ==
    mainPc \in {"collect", "summary", "done"}
        => all_rows = ConcatResults(CollectedInCompletionOrder)

\* C11, amended: under every interleaving the accumulated rows are the
\* results of the successful fetches collected so far, each whole, once and
\* in page order, one fetch after the other in the order in which
\* as_completed yielded them: the futures that were done when as_completed
\* was called first, in any order, then the others in the order in which
\* they finished.  The failure list holds the keys of the other collected
\* fetches, in the same order.  At the end every future is collected.  Only
\* the loop of the coordinating thread changes the rows and the failure
\* list, and never while it changes the state of a fetch.
C11_RowsInYieldOrder ==
    /\ [](\E order \in YieldOrders :
            /\ all_rows = ConcatResults(order)
            /\ failures = RaisedKeys(order))
    /\ [](mainPc \in {"summary", "done"} => yielded = Futures)
    /\ [](\A i \in Futures :
            fstate[i] = "returned"
                => results[i] = PagesUpTo(keys[i], ServedPage(next_params[i])))
    /\ [][(all_rows' # all_rows \/ failures' # failures)
            => /\ mainPc = "collect"
               /\ Cardinality(yielded') = Cardinality(yielded) + 1
               /\ UNCHANGED <<fstate, fetchVars, completed>>]_vars

\* C11: two fetches of two pages each ran side by side and both were done
\* when as_completed was called; the one that finished last was yielded
\* first, so that its entities come first.
C11_Witness ==
    /\ mainPc = "done"
    /\ max_workers = 2
    /\ Len(keys) = 2
    /\ completed = <<1, 2>>
    /\ snapshot = {1, 2}
    /\ requests = <<2, 2>>
    /\ Len(results[1]) > 1
    /\ all_rows = results[2] \o results[1]

\* The configuration main rejects: no table URL, no input file, or an input
\* file from which no key is loaded.
BadConfig ==
    \/ table_url = ""
    \/ ~input_file.exists
    \/ load_partition_keys(input_file) = <<>>

\* C12: a run without table URL, without its input file, or with an input
\* file from which no key is loaded asks for no token and makes no request:
\* its one step is the exit with a non-zero status.
C12_NoNetworkOnBadConfig ==
    /\ [](BadConfig => /\ token_requests = 0
                       /\ Futures = {}
                       /\ last_resp.fut = 0
                       /\ mainPc \in {"start", "exit"}
                       /\ mainPc = "exit" => exit_status = "nonzero")
    /\ [][BadConfig /\ mainPc = "start"
            => mainPc' = "exit" /\ exit_status' = "nonzero"]_vars

\* C12: the run over a file with a header and a comment, and no key, has
\* ended.
C12_Witness ==
    /\ table_url # ""
    /\ input_file = TextFile(<<"PartitionKey", "\n", "#", "A">>)
    /\ mainPc = "exit"
    /\ exit_status = "nonzero"
    /\ keys = <<>>
    /\ token_requests = 0

\* The positions of text at which a line begins.
LineStarts(text) == {p \in 1..Len(text) : p = 1 \/ text[p - 1] = "\n"}

\* The position at which the first field of the line beginning at p ends:
\* before the first comma or line end.
FieldEnd(text, p) ==
    CHOOSE q \in (p - 1)..Len(text) :
        /\ \A r \in p..q : text[r] \notin {",", "\n"}
        /\ q = Len(text) \/ text[q + 1] \in {",", "\n"}

\* The first field of the line beginning at p, without the blanks around it.
FirstField(text, p) ==
    LET inside == {r \in p..FieldEnd(text, p) : text[r] # " "}
    IN  IF inside = {} THEN <<>>
        ELSE LET a == CHOOSE r \in inside : \A o \in inside : r <= o
                 b == CHOOSE r \in inside : \A o \in inside : o <= r
             IN  SubSeq(text, a, b)

\* The lines of text that hold a key: their first field is neither blank
\* nor a comment.
KeyStarts(text) ==
    {p \in LineStarts(text) :
        FirstField(text, p) # <<>> /\ FirstField(text, p)[1] # "#"}

\* The first field of the first line of text is the header word, in
\* whatever case.
HasHeader(text) ==
    /\ text # <<>>
    /\ FirstField(text, 1) \in {<<"PartitionKey">>, <<"partitionkey">>}

\* ks holds the keys of the lines of text that begin at the positions from,
\* each once, in the order of their first lines.
FirstOccurrences(ks, text, from) ==
    LET FirstAt(k) == CHOOSE p \in from :
                          /\ FirstField(text, p) = k
                          /\ \A o \in from : FirstField(text, o) = k => p <= o
    IN  /\ Range(ks) = {FirstField(text, p) : p \in from}
        /\ \A a, b \in 1..Len(ks) : a < b => FirstAt(ks[a]) < FirstAt(ks[b])

\* main has called load_partition_keys and the file was there.
Loaded == mainPc # "start" /\ table_url # "" /\ input_file.exists

\* C14: the keys loaded from a file are the first fields of its lines that
\* are neither blank nor comments, without the blanks around them, each
\* once and in the order of its first line; a header in the first line may
\* be left out.  The lines PartitionKey, A, A, B, #c load as A, B.
C14_KeysInFirstSeenOrder ==
    Loaded =>
        /\ \/ FirstOccurrences(keys, input_file.text, KeyStarts(input_file.text))
           \/ /\ HasHeader(input_file.text)
              /\ FirstOccurrences(keys, input_file.text,
                                  KeyStarts(input_file.text) \ {1})
        /\ input_file.text = ExampleText => keys = <<<<"A">>, <<"B">>>>

\* C14: the example file is loaded.
C14_Witness ==
    /\ Loaded
    /\ input_file.text = ExampleText
    /\ keys = <<<<"A">>, <<"B">>>>
    /\ Len(ReadKeys(ExampleText)) = 3

\* C15 as stated: when the first field of the first line is the header word,
\* in whatever case, the keys loaded are those of the other lines, in the
\* delimited mode and in the mode of one key per line.
C15_HeaderDiscarded ==
    (Loaded /\ HasHeader(input_file.text))
        => FirstOccurrences(keys, input_file.text, KeyStarts(input_file.text) \ {1})

\* The futures whose fetch failed.
Raised == {i \in Futures : fstate[i] = "raised"}

\* C13: once the keys are loaded and the token is there, the run goes on to
\* its end whatever the number of failed keys: it never exits with a
\* non-zero status, it writes the CSV file with the rows of the keys that
\* were fetched, and it ends with status zero.  The failed keys show in
\* their lines and in the summary only.
C13_ExitZeroDespiteFailures ==
    /\ [](mainPc \in {"submit", "as_completed", "collect", "summary"}
            => exit_status = "none")
    /\ [](mainPc = "done"
            => /\ exit_status = "zero"
               /\ csv_file = <<CsvFile(all_rows)>>
               /\ Len(all_rows) = Sum([i \in Futures |-> Len(results[i])],
                                      Futures \ Raised)
               /\ summary[1].failures = Cardinality(Raised)
               /\ summary[1].processed = Len(keys)
               /\ \A i \in Raised :
                     /\ keys[i] \in Range(summary[1].failed)
                     /\ \E line \in printed : line.tag = "ERR" /\ line.pk = keys[i])
    /\ (mainPc = "submit") ~> (mainPc = "done")

\* C13: a run of three keys has ended with status zero after every key
\* failed; the CSV file has no row.
C13_Witness ==
    /\ mainPc = "done"
    /\ exit_status = "zero"
    /\ Len(keys) = 3
    /\ Raised = Futures
    /\ csv_file # <<>>
    /\ csv_file[1].body = <<>>
    /\ summary[1].failures = 3

\* The field names that are not preferred, in lexicographic order.
OtherNames == <<"ETag", "X", "Y", "x">>

\* s holds names of the sequence all, each at most once and in the order of
\* all.
InOrderOf(s, all) ==
    /\ Range(s) \subseteq Range(all)
    /\ \A a, b \in 1..Len(s) :
          a < b => \E m, n \in 1..Len(all) : m < n /\ all[m] = s[a] /\ all[n] = s[b]

\* C16: the header of the CSV file holds the field names of the accumulated
\* entities, each once: first those of PartitionKey, RowKey, Timestamp that
\* occur, in this order, then the other names in lexicographic order.  The
\* entities of fields PartitionKey, RowKey, X and PartitionKey, RowKey, Y
\* give the header PartitionKey, RowKey, X, Y.
C16_HeaderIsOrderedUnion ==
    csv_file # <<>> =>
        LET header == csv_file[1].header
            names == UNION {DOMAIN all_rows[n] : n \in 1..Len(all_rows)}
        IN  /\ Range(header) = names
            /\ Len(header) = Cardinality(names)
            /\ \E k \in 0..Len(header) :
                  /\ InOrderOf(SubSeq(header, 1, k), <<"PartitionKey", "RowKey", "Timestamp">>)
                  /\ InOrderOf(SubSeq(header, k + 1, Len(header)), OtherNames)
            /\ {DOMAIN all_rows[n] : n \in 1..Len(all_rows)}
                     = {{"PartitionKey", "RowKey", "X"}, {"PartitionKey", "RowKey", "Y"}}
                  => header = <<"PartitionKey", "RowKey", "X", "Y">>

\* C16: the file is written for entities of fields PartitionKey, RowKey, X
\* and PartitionKey, RowKey, Y.
C16_Witness ==
    /\ csv_file # <<>>
    /\ {DOMAIN all_rows[n] : n \in 1..Len(all_rows)}
          = {{"PartitionKey", "RowKey", "X"}, {"PartitionKey", "RowKey", "Y"}}
    /\ csv_file[1].header = <<"PartitionKey", "RowKey", "X", "Y">>

\* The pages the fetch of future i has received.
PagesReceived(i) == requests[i] - Len(fail_pages[i])

\* C17: the next request of a running fetch carries the equality filter of
\* its key and exactly the continuation markers of the latest response
\* with entities, none before the first.  A failed request that is retried
\* leaves the parameters and the accumulated entities as they are, so that
\* the fetch goes on with the page that failed: what it has accumulated is
\* always the pages before that page, each once and in order.
C17_ParamsFollowLatestPage ==
    /\ [](\A i \in Futures :
            /\ fstate[i] = "running"
                  => /\ next_params[i] =
                            [filter |-> ODataEscape(keys[i]),
                             NextPartitionKey |-> ok_hdrs[i].npk,
                             NextRowKey |-> ok_hdrs[i].nrk]
                     /\ PagesReceived(i) = 0 => ok_hdrs[i] = NoHeaders
                     /\ ServedPage(next_params[i]) = PagesReceived(i) + 1
            /\ fstate[i] \in {"running", "returned", "raised"}
                  => results[i] = PagesUpTo(keys[i], PagesReceived(i)))
    /\ [][\A i \in Futures :
            (fail_pages'[i] # fail_pages[i] /\ fstate'[i] = "running")
                => /\ next_params'[i] = next_params[i]
                   /\ results'[i] = results[i]
                   /\ ok_hdrs'[i] = ok_hdrs[i]]_vars

\* C17: the second page failed with a 503 and is about to be asked for
\* again, with the row marker the first page gave and no partition marker.
C17_Witness ==
    \E i \in Futures :
        /\ fstate[i] = "running"
        /\ Latest(i) /\ last_resp.outcome = 503
        /\ fail_pages[i] = <<2>>
        /\ requests[i] = 2
        /\ next_params[i].NextPartitionKey = NoMarker
        /\ next_params[i].NextRowKey = 2
        /\ results[i] = PagesUpTo(keys[i], 1)
        /\ results[i] # <<>>

\* C18: the retry counter, the backoff and the entities of a fetch depend
\* on that fetch alone.  A fetch starts with counter 0, backoff
\* initial_backoff and no entity; its counter counts its own failed
\* requests and its backoff was doubled once per sleep of its own; and a
\* request, a sleep or the failure of one fetch leaves the counter, the
\* backoff, the entities and the parameters of every other fetch unchanged.
C18_RetryStatePrivate ==
    /\ [](\A i \in Futures :
            fstate[i] \in {"running", "returned"}
                => /\ tries[i] = Len(fail_pages[i])
                   /\ Len(sleeps[i]) = tries[i]
                   /\ backoff[i] = BackoffAfter(tries[i])
                   /\ results[i] = PagesUpTo(keys[i], PagesReceived(i)))
    /\ [][\A i \in Futures :
            /\ starts'[i] # starts[i]
                  => tries'[i] = 0 /\ backoff'[i] = initial_backoff /\ results'[i] = <<>>
            /\ (requests'[i] # requests[i] \/ sleeps'[i] # sleeps[i]
                   \/ fstate'[i] # fstate[i])
                  => \A j \in Futures \ {i} :
                        /\ tries'[j] = tries[j]
                        /\ backoff'[j] = backoff[j]
                        /\ results'[j] = results[j]
                        /\ next_params'[j] = next_params[j]]_vars

\* C18: of two fetches that ran side by side, one has failed after a retry,
\* while the other has its first page and still counter 0 and the initial
\* backoff.
C18_Witness ==
    \E i, j \in Futures :
        /\ max_workers = 2
        /\ fstate[i] = "raised"
        /\ error[i] = RequestError
        /\ Len(sleeps[i]) = 1
        /\ Latest(i)
        /\ fstate[j] = "running"
        /\ tries[j] = 0
        /\ backoff[j] = initial_backoff
        /\ results[j] # <<>>

\* How many requests the fetch of future i can still make at most: one per
\* page the service has left, and one per failure the retries allow.
RequestsLeft(i) ==
    (service.page_limit - PagesReceived(i)) + (max_retries + 1 - Len(fail_pages[i]))

\* C19: a fetch makes at most max_retries + 1 failed requests and at most
\* max_retries sleeps, and a fetch that returns the P pages of its key has
\* made at most P + max_retries requests.  Every fetch ends when the service
\* sends continuation markers on finitely many pages: a running fetch can
\* always take a step, and every request brings it nearer to the most it
\* can make.
C19_FetchTerminates ==
    /\ [](\A i \in Futures :
            /\ Len(fail_pages[i]) <= max_retries + 1
            /\ Len(sleeps[i]) <= max_retries
            /\ fstate[i] = "returned"
                  => /\ PagesReceived(i) = ServedPage(next_params[i])
                     /\ requests[i] <= ServedPage(next_params[i]) + max_retries
            /\ fstate[i] = "running"
                  => /\ RequestsLeft(i) > 0
                     /\ ENABLED WorkerStep(i))
    /\ [][\A i \in Futures :
            requests'[i] # requests[i]
                => /\ requests'[i] = requests[i] + 1
                   /\ RequestsLeft(i)' = RequestsLeft(i) - 1]_vars

\* C19: with max_retries = 2, a fetch has returned the three pages of its
\* key after five requests and two sleeps.
C19_Witness ==
    \E i \in Futures :
        /\ max_retries = 2
        /\ fstate[i] = "returned"
        /\ ServedPage(next_params[i]) = 3
        /\ requests[i] = 5
        /\ Len(sleeps[i]) = 2

\* The 4xx statuses other than 401, 403 and 429.
Other4xx == (400..499) \ {401, 403, 429}

\* C20: a response with a 4xx status other than 401, 403 and 429 has the
\* effect of a request that raised a network failure: the entities and the
\* parameters stay, the retry counter goes up by one, and the fetch fails
\* with "Request failed" if the counter then exceeds max_retries, and else
\* sleeps for the backoff, doubles it up to the cap and asks again.
C20_Other4xxRetried ==
    /\ [](\A i \in Futures :
            (Latest(i) /\ last_resp.outcome \in Other4xx)
                => \/ fstate[i] = "running" /\ tries[i] <= max_retries
                   \/ /\ fstate[i] = "raised"
                      /\ error[i] = RequestError
                      /\ tries[i] = max_retries + 1)
    /\ [][\A i \in Futures :
            (requests'[i] # requests[i] /\ last_resp'.outcome \in Other4xx \cup {NetErr})
                => /\ tries'[i] = tries[i] + 1
                   /\ results'[i] = results[i]
                   /\ next_params'[i] = next_params[i]
                   /\ fail_pages'[i] = Append(fail_pages[i], ServedPage(next_params[i]))
                   /\ IF tries[i] + 1 > max_retries
                      THEN /\ fstate'[i] = "raised"
                           /\ error'[i] = RequestError
                           /\ sleeps'[i] = sleeps[i]
                      ELSE /\ fstate'[i] = "running"
                           /\ sleeps'[i] = Append(sleeps[i], backoff[i])
                           /\ backoff'[i] = Min(backoff[i] * 2, BackoffCap)]_vars

\* C20: a 404 on the second page was the first failure of the fetch: the
\* fetch has slept and goes on.
C20_Witness ==
    \E i \in Futures :
        /\ Latest(i) /\ last_resp.outcome = 404
        /\ fstate[i] = "running"
        /\ fail_pages[i] = <<2>>
        /\ tries[i] = 1
        /\ sleeps[i] = <<initial_backoff>>
        /\ results[i] # <<>>
        /\ max_retries = 2

=============================================================================
